---- MODULE Spec2Model ----
(***************************************************************************)
(* Model of the inference proxy (src/main.py): the exact-match response    *)
(* cache, the cost model, and the two request pipelines, POST /chat        *)
(* (buffered) and POST /chat/stream (streaming).                           *)
(*                                                                         *)
(* Each request is one task (FastAPI runs a sync handler in a thread       *)
(* pool).  A task's steps are cut where it blocks or shares state: the     *)
(* cache check, the upstream call, each chunk handed to the consumer.      *)
(* The upstream provider is the environment: it answers with a message,    *)
(* emits text pieces, or raises APIError.                                  *)
(*                                                                         *)
(* Money: a rate is in cents per million tokens, calculate_cost is in      *)
(* units of 1e-8 USD, and a cost rounded to 6 decimals is an integer       *)
(* number of micro-USD (4.80 USD is 4800000).                              *)
(***************************************************************************)
EXTENDS Integers, Sequences, FiniteSets, TLC

\* ------------------------------------------------------------- bounds
\* Number of requests the proxy receives in a run.
MaxReqs == 2
\* Largest number of text pieces an upstream response is made of.
MaxPieces == 2

Reqs == 1..MaxReqs

\* Python's None.
None == "None"

\* ------------------------------------------------------- static tables
\* MODELS (alias -> upstream model id).
MODELS == [haiku |-> "claude-haiku-4-5-20251001", sonnet |-> "claude-sonnet-4-6"]

\* COST_PER_MILLION_TOKENS, in cents per million tokens.
COST_PER_MILLION_TOKENS ==
    [m \in {"claude-haiku-4-5-20251001", "claude-sonnet-4-6"} |->
        IF m = "claude-haiku-4-5-20251001"
        THEN [input |-> 80, output |-> 400]
        ELSE [input |-> 300, output |-> 1500]]

\* Variant: MODELS.get(alias, MODELS["haiku"]), an unknown alias falls
\* back to the default model.
MODELS_get_Default(alias) ==
    IF alias \in DOMAIN MODELS THEN MODELS[alias] ELSE MODELS["haiku"]

\* MODELS.get(alias): the model id, or None for an alias not in MODELS.
MODELS_get(alias) == IF alias \in DOMAIN MODELS THEN MODELS[alias] ELSE None

\* ------------------------------------------------------------- inputs
\* Request bodies: messages that differ in one character's case, and
\* aliases known, unknown and left out.
Messages == {"hello", "Hello"}
Omitted == "<omitted>"
Aliases == {"haiku", "sonnet", "gpt-4", Omitted}

\* ChatRequest: model defaults to "haiku".
ChatRequest(endpoint, message, model) ==
    [endpoint |-> endpoint,
     message  |-> message,
     model    |-> IF model = Omitted THEN "haiku" ELSE model]

NoRequest == [endpoint |-> None, message |-> None, model |-> None]

\* ----------------------------------------------------------- upstream
\* Text pieces the provider emits, and the token counts it reports.
Pieces == {"a", "b"}
Usages == {[input_tokens |-> 1000000, output_tokens |-> 1000000],
           [input_tokens |-> 2, output_tokens |-> 1]}
ZeroUsage == [input_tokens |-> 0, output_tokens |-> 0]

RECURSIVE Concat(_)
\* "".join(pieces)
Concat(ps) == IF ps = <<>> THEN "" ELSE Head(ps) \o Concat(Tail(ps))

PieceSeqs == UNION {[1..n -> Pieces] : n \in 0..MaxPieces}

\* A completed upstream message: content blocks (none for a malformed
\* response) and usage.
Message(content, usage) == [received |-> TRUE, content |-> content, usage |-> usage]
NoMessage == [received |-> FALSE, content |-> <<>>, usage |-> ZeroUsage]

\* What client.messages.create can return.
CreateReturns ==
    {Message(<<Concat(ps)>>, u) : ps \in PieceSeqs, u \in Usages}
        \cup {Message(<<>>, u) : u \in Usages}

\* stream.get_final_message(): the text block is the accumulated pieces;
\* a response that emitted no text may carry no content block at all.
FinalMessages(ps) ==
    {Message(<<Concat(ps)>>, u) : u \in Usages}
        \cup (IF ps = <<>> THEN {Message(<<>>, u) : u \in Usages} ELSE {})

\* -------------------------------------------------------------- cache
\* Variant: the key leaves the model id out.
CacheKey_MessageOnly(message, model_id) == <<message, "*">>

\* The key of a cache entry.
CacheKey(message, model_id) == <<message, model_id>>

\* Variant: the lookup never finds the key.
CacheHas_Never(c, key) == FALSE

\* key in cache
CacheHas(c, key) == key \in DOMAIN c

\* Variant: the assignment is left out.
CachePut_Dropped(c, key, text) == c

\* Variant: the cache holds one entry, a write evicts the others.
CachePut_Evicting(c, key, text) == [k \in {key} |-> text]

\* Variant: cache.setdefault(key, text), an entry is never overwritten.
CachePut_KeepFirst(c, key, text) ==
    [k \in DOMAIN c \cup {key} |-> IF k \in DOMAIN c THEN c[k] ELSE text]

\* cache[key] = text
CachePut(c, key, text) ==
    [k \in DOMAIN c \cup {key} |-> IF k = key THEN text ELSE c[k]]

\* --------------------------------------------------------- cost model
\* calculate_cost, in 1e-8 USD.
calculate_cost(model_id, usage) ==
    LET costs == COST_PER_MILLION_TOKENS[model_id]
    IN  usage.input_tokens * costs.input + usage.output_tokens * costs.output

\* Variant: the cost is cut to 6 decimals, not rounded.
round6_Truncated(x) == x \div 100

\* round(x, 6): x in 1e-8 USD to the nearest micro-USD, ties to even.
round6(x) ==
    LET q == x \div 100
        rem == x % 100
    IN  IF rem > 50 \/ (rem = 50 /\ q % 2 = 1) THEN q + 1 ELSE q

\* -------------------------------------------------------------- state
VARIABLES
    cache,      \* the process-wide dict: (message, model id) -> text
    pc,         \* each request's position in its handler
    request,    \* each request's body
    response,   \* each request's completed upstream message, once received
    result,     \* each request's HTTP response
    replay,     \* a streaming hit's body iterator: the texts left to send
    pieces,     \* text pieces a streaming request has pulled from upstream
    chunks,     \* chunks a streaming request has handed to its consumer
    calls,      \* upstream calls each request has issued
    writes,     \* cache writes each request has made
    log,        \* log lines each request has written
    before      \* the requests that had ended when each request arrived

vars == <<cache, pc, request, response, result, replay, pieces, chunks,
          calls, writes, log, before>>

\* A chunk of a streamed body: a text piece, or the trailer.
TextChunk(text) ==
    [trailer |-> FALSE, text |-> text, usage |-> ZeroUsage, cost |-> 0]
TrailerChunk(usage, cost) ==
    [trailer |-> TRUE, text |-> "", usage |-> usage, cost |-> cost]

\* No response yet.
NoResult ==
    [status |-> 0, xcache |-> None, raised |-> None, response |-> None,
     model |-> None, usage |-> ZeroUsage, estimated_cost_usd |-> 0,
     cached |-> FALSE]

\* raise HTTPException(status_code=status) from a handler.
HTTPError(status) ==
    [NoResult EXCEPT !.status = status, !.raised = "HTTPException"]

\* The JSON body of a 200 answer of /chat.
ChatResult(text, model, usage, cost, cached) ==
    [NoResult EXCEPT !.status = 200, !.response = text, !.model = model,
                     !.usage = usage, !.estimated_cost_usd = cost,
                     !.cached = cached]

\* Variant: the header is always MISS.
StreamingResponse_AlwaysMiss(xcache) == [NoResult EXCEPT !.status = 200, !.xcache = "MISS"]

\* StreamingResponse(..., headers={"X-Cache": xcache}): status 200 and the
\* headers go out when the handler returns, before the body is iterated.
StreamingResponse(xcache) == [NoResult EXCEPT !.status = 200, !.xcache = xcache]

Init ==
    /\ cache = <<>>
    /\ pc = [r \in Reqs |-> "idle"]
    /\ request = [r \in Reqs |-> NoRequest]
    /\ response = [r \in Reqs |-> NoMessage]
    /\ result = [r \in Reqs |-> NoResult]
    /\ replay = [r \in Reqs |-> <<>>]
    /\ pieces = [r \in Reqs |-> <<>>]
    /\ chunks = [r \in Reqs |-> <<>>]
    /\ calls = [r \in Reqs |-> 0]
    /\ writes = [r \in Reqs |-> 0]
    /\ log = [r \in Reqs |-> <<>>]
    /\ before = [r \in Reqs |-> {}]

\* A request has ended: answered, failed, or left by its consumer.
Ended(q) == pc[q] \in {"done", "failed", "abandoned"}

\* Requests are numbered in the order they arrive; a request notes which
\* requests had ended by then.
Arrives(r) ==
    /\ pc[r] = "idle"
    /\ \A q \in Reqs : q < r => pc[q] # "idle"
    /\ before' = [before EXCEPT ![r] = {q \in Reqs : Ended(q)}]

\* Variant: the chunk goes in front of those already sent.
Deliver_InFront(sent, chunk) == <<chunk>> \o sent

\* yield chunk: the chunk goes to the consumer after those already sent.
Deliver(sent, chunk) == Append(sent, chunk)

\* The key a request's handler computes.
KeyOf(rq) == CacheKey(rq.message, MODELS_get(rq.model))

\* ------------------------------------------------------ POST /chat
\* chat(): resolve the alias, check the cache, and on a miss issue
\* client.messages.create.
Chat(r, message, model) ==
    LET rq == ChatRequest("/chat", message, model)
        model_id == MODELS_get(rq.model)
        key == CacheKey(rq.message, model_id)
    IN  /\ Arrives(r)
        /\ request' = [request EXCEPT ![r] = rq]
        /\ IF model_id = None
           THEN /\ result' = [result EXCEPT ![r] = HTTPError(400)]
                /\ pc' = [pc EXCEPT ![r] = "done"]
                /\ UNCHANGED <<calls, log>>
           ELSE IF CacheHas(cache, key)
           THEN /\ log' = [log EXCEPT ![r] = Append(@, "cache_hit")]
                /\ result' = [result EXCEPT ![r] =
                        ChatResult(cache[key], rq.model, ZeroUsage, 0, TRUE)]
                /\ pc' = [pc EXCEPT ![r] = "done"]
                /\ UNCHANGED calls
           ELSE /\ calls' = [calls EXCEPT ![r] = @ + 1]
                /\ pc' = [pc EXCEPT ![r] = "calling"]
                /\ UNCHANGED <<result, log>>
        /\ UNCHANGED <<cache, response, replay, pieces, chunks, writes>>

\* client.messages.create returns msg: cache the first content block's
\* text, compute the cost, answer.  A message with no content block makes
\* response.content[0] raise IndexError, which is not an APIError.
ChatReturn(r, msg) ==
    LET rq == request[r]
        model_id == MODELS_get(rq.model)
        key == CacheKey(rq.message, model_id)
    IN  /\ pc[r] = "calling"
        /\ response' = [response EXCEPT ![r] = msg]
        /\ pc' = [pc EXCEPT ![r] = "done"]
        /\ IF msg.content = <<>>
           THEN /\ result' = [result EXCEPT ![r] =
                        [NoResult EXCEPT !.status = 500, !.raised = "IndexError"]]
                /\ UNCHANGED <<cache, writes, log>>
           ELSE LET cost == round6(calculate_cost(model_id, msg.usage))
                IN  /\ cache' = CachePut(cache, key, msg.content[1])
                    /\ writes' = [writes EXCEPT ![r] = @ + 1]
                    /\ log' = [log EXCEPT ![r] = Append(@, "chat_response")]
                    /\ result' = [result EXCEPT ![r] =
                            ChatResult(msg.content[1], rq.model, msg.usage, cost, FALSE)]
        /\ UNCHANGED <<request, replay, pieces, chunks, calls, before>>

\* Variant: the failure is cached as an empty answer.
ChatAPIError_Cached(r) ==
    /\ pc[r] = "calling"
    /\ log' = [log EXCEPT ![r] = Append(@, "upstream_error")]
    /\ result' = [result EXCEPT ![r] = HTTPError(503)]
    /\ pc' = [pc EXCEPT ![r] = "done"]
    /\ cache' = CachePut(cache, KeyOf(request[r]), "")
    /\ UNCHANGED <<request, response, replay, pieces, chunks, calls, writes, before>>

\* Variant: the call is issued again after a failure.
ChatAPIError_Retried(r) ==
    /\ pc[r] = "calling"
    /\ calls[r] < 3
    /\ calls' = [calls EXCEPT ![r] = @ + 1]
    /\ log' = [log EXCEPT ![r] = Append(@, "upstream_error")]
    /\ UNCHANGED <<cache, pc, request, response, result, replay, pieces, chunks, writes, before>>

\* client.messages.create raises APIError: log it and answer 503.
ChatAPIError(r) ==
    /\ pc[r] = "calling"
    /\ log' = [log EXCEPT ![r] = Append(@, "upstream_error")]
    /\ result' = [result EXCEPT ![r] = HTTPError(503)]
    /\ pc' = [pc EXCEPT ![r] = "done"]
    /\ UNCHANGED <<cache, request, response, replay, pieces, chunks, calls, writes, before>>

\* ------------------------------------------------ POST /chat/stream
\* chat_stream(): resolve the alias, check the cache, and return a
\* StreamingResponse over the cached text (hit) or over generate() (miss).
\* generate() is a generator: none of its body runs before the consumer
\* pulls the first chunk.
ChatStream(r, message, model) ==
    LET rq == ChatRequest("/chat/stream", message, model)
        model_id == MODELS_get(rq.model)
        key == CacheKey(rq.message, model_id)
    IN  /\ Arrives(r)
        /\ request' = [request EXCEPT ![r] = rq]
        /\ IF model_id = None
           THEN /\ result' = [result EXCEPT ![r] = HTTPError(400)]
                /\ pc' = [pc EXCEPT ![r] = "done"]
                /\ UNCHANGED <<replay, log>>
           ELSE IF CacheHas(cache, key)
           THEN /\ log' = [log EXCEPT ![r] = Append(@, "cache_hit")]
                /\ replay' = [replay EXCEPT ![r] = <<cache[key]>>]
                /\ result' = [result EXCEPT ![r] = StreamingResponse("HIT")]
                /\ pc' = [pc EXCEPT ![r] = "replay"]
           ELSE /\ result' = [result EXCEPT ![r] = StreamingResponse("MISS")]
                /\ pc' = [pc EXCEPT ![r] = "created"]
                /\ UNCHANGED <<replay, log>>
        /\ UNCHANGED <<cache, response, pieces, chunks, calls, writes>>

\* Variant: the replay ends with a trailer of zeros.
StreamReplay_WithTrailer(r) ==
    /\ pc[r] = "replay"
    /\ chunks' = [chunks EXCEPT ![r] =
            Deliver(Deliver(@, TextChunk(Head(replay[r]))), TrailerChunk(ZeroUsage, 0))]
    /\ replay' = [replay EXCEPT ![r] = Tail(@)]
    /\ pc' = [pc EXCEPT ![r] = "done"]
    /\ UNCHANGED <<cache, request, response, result, pieces, calls, writes, log, before>>

\* The consumer iterates iter([cached text]): one chunk, then the end.
StreamReplay(r) ==
    /\ pc[r] = "replay"
    /\ chunks' = [chunks EXCEPT ![r] = Deliver(@, TextChunk(Head(replay[r])))]
    /\ replay' = [replay EXCEPT ![r] = Tail(@)]
    /\ pc' = [pc EXCEPT ![r] = "done"]
    /\ UNCHANGED <<cache, request, response, result, pieces, calls, writes, log, before>>

\* The except clause of generate(): log, raise HTTPException(503).  The
\* response has started (status 200, X-Cache: MISS), so the exception
\* only ends the body.
StreamRaise(r) ==
    /\ log' = [log EXCEPT ![r] = Append(@, "upstream_error")]
    /\ result' = [result EXCEPT ![r].raised = "HTTPException"]
    /\ pc' = [pc EXCEPT ![r] = "failed"]

\* Variant: the except clause caches what was streamed so far.
CacheOnStreamError_Partial(r) ==
    CachePut(cache,
             CacheKey(request[r].message, MODELS_get(request[r].model)),
             Concat(pieces[r]))

\* What the except clause of generate() does to the cache: nothing.
CacheOnStreamError(r) == cache

\* First pull: generate() starts and client.messages.stream(...) opens.
StreamOpen(r) ==
    /\ pc[r] = "created"
    /\ calls' = [calls EXCEPT ![r] = @ + 1]
    /\ pc' = [pc EXCEPT ![r] = "fetching"]
    /\ UNCHANGED <<cache, request, response, result, replay, pieces, chunks, writes, log, before>>

\* client.messages.stream(...) raises APIError on opening.
StreamOpenError(r) ==
    /\ pc[r] = "created"
    /\ calls' = [calls EXCEPT ![r] = @ + 1]
    /\ StreamRaise(r)
    /\ cache' = CacheOnStreamError(r)
    /\ UNCHANGED <<request, response, replay, pieces, chunks, writes, before>>

\* Variant: pieces are read ahead of the consumer.
StreamFetch_ReadAhead(r, text) ==
    /\ pc[r] \in {"fetching", "fetched"}
    /\ Len(pieces[r]) < MaxPieces
    /\ pieces' = [pieces EXCEPT ![r] = Append(@, text)]
    /\ pc' = [pc EXCEPT ![r] = "fetched"]
    /\ UNCHANGED <<cache, request, response, result, replay, chunks, calls, writes, log, before>>

\* for text in stream.text_stream: the provider emits the next piece.
StreamFetch(r, text) ==
    /\ pc[r] = "fetching"
    /\ Len(pieces[r]) < MaxPieces
    /\ pieces' = [pieces EXCEPT ![r] = Append(@, text)]
    /\ pc' = [pc EXCEPT ![r] = "fetched"]
    /\ UNCHANGED <<cache, request, response, result, replay, chunks, calls, writes, log, before>>

\* yield text: the piece is handed to the consumer and generate() is
\* suspended.
StreamYield(r) ==
    /\ pc[r] = "fetched"
    /\ chunks' = [chunks EXCEPT ![r] = Deliver(@, TextChunk(pieces[r][Len(pieces[r])]))]
    /\ pc' = [pc EXCEPT ![r] = "suspended"]
    /\ UNCHANGED <<cache, request, response, result, replay, pieces, calls, writes, log, before>>

\* The consumer pulls again: generate() resumes after its yield; after
\* the trailer it runs off its end.
StreamPull(r) ==
    /\ pc[r] \in {"suspended", "trailer"}
    /\ pc' = [pc EXCEPT ![r] = IF pc[r] = "trailer" THEN "done" ELSE "fetching"]
    /\ UNCHANGED <<cache, request, response, result, replay, pieces, chunks, calls, writes, log, before>>

\* Variant: the failure is handled as the end of the stream, so what was
\* streamed is cached and the trailer is sent.
StreamAPIError_Finalizes(r) ==
    /\ pc[r] = "fetching"
    /\ StreamRaise(r)
    /\ cache' = CachePut(cache, KeyOf(request[r]), Concat(pieces[r]))
    /\ chunks' = [chunks EXCEPT ![r] = Deliver(@, TrailerChunk(ZeroUsage, 0))]
    /\ UNCHANGED <<request, response, replay, pieces, calls, writes, before>>

\* The provider fails while text_stream is iterated or the final message
\* is fetched (APIError).
StreamAPIError(r) ==
    /\ pc[r] = "fetching"
    /\ StreamRaise(r)
    /\ cache' = CacheOnStreamError(r)
    /\ UNCHANGED <<request, response, replay, pieces, chunks, calls, writes, before>>

\* Variant: the streamed text is not written to the cache.
StreamFinal_NotCached(r, msg) ==
    LET rq == request[r]
        model_id == MODELS_get(rq.model)
    IN  /\ pc[r] = "fetching"
        /\ msg \in FinalMessages(pieces[r])
        /\ response' = [response EXCEPT ![r] = msg]
        /\ IF msg.content = <<>>
           THEN /\ result' = [result EXCEPT ![r].raised = "IndexError"]
                /\ pc' = [pc EXCEPT ![r] = "failed"]
                /\ UNCHANGED <<log, chunks>>
           ELSE LET cost == round6(calculate_cost(model_id, msg.usage))
                IN  /\ log' = [log EXCEPT ![r] = Append(@, "stream_response")]
                    /\ chunks' = [chunks EXCEPT ![r] =
                            Deliver(@, TrailerChunk(msg.usage, cost))]
                    /\ pc' = [pc EXCEPT ![r] = "trailer"]
                    /\ UNCHANGED result
        /\ UNCHANGED <<cache, writes, request, replay, pieces, calls, before>>

\* text_stream is exhausted: get_final_message(), cache its first content
\* block's text, compute the cost, log, yield the trailer.  With no
\* content block, content[0] raises IndexError, which the except clause
\* does not catch.
StreamFinal(r, msg) ==
    LET rq == request[r]
        model_id == MODELS_get(rq.model)
        key == CacheKey(rq.message, model_id)
    IN  /\ pc[r] = "fetching"
        /\ msg \in FinalMessages(pieces[r])
        /\ response' = [response EXCEPT ![r] = msg]
        /\ IF msg.content = <<>>
           THEN /\ result' = [result EXCEPT ![r].raised = "IndexError"]
                /\ pc' = [pc EXCEPT ![r] = "failed"]
                /\ UNCHANGED <<cache, writes, log, chunks>>
           ELSE LET cost == round6(calculate_cost(model_id, msg.usage))
                IN  /\ cache' = CachePut(cache, key, msg.content[1])
                    /\ writes' = [writes EXCEPT ![r] = @ + 1]
                    /\ log' = [log EXCEPT ![r] = Append(@, "stream_response")]
                    /\ chunks' = [chunks EXCEPT ![r] =
                            Deliver(@, TrailerChunk(msg.usage, cost))]
                    /\ pc' = [pc EXCEPT ![r] = "trailer"]
                    /\ UNCHANGED result
        /\ UNCHANGED <<request, replay, pieces, calls, before>>

\* Variant: closing the generator caches what has been streamed so far.
StreamAbandon_CachesPartial(r) ==
    /\ pc[r] \in {"suspended", "trailer"}
    /\ pc' = [pc EXCEPT ![r] = "abandoned"]
    /\ cache' = CachePut(cache, KeyOf(request[r]), Concat(pieces[r]))
    /\ UNCHANGED <<request, response, result, replay, pieces, chunks, calls, writes, log, before>>

\* The consumer goes away while generate() is suspended at a yield: the
\* generator is closed there and none of the code after the yield runs.
StreamAbandon(r) ==
    /\ pc[r] \in {"suspended", "trailer"}
    /\ pc' = [pc EXCEPT ![r] = "abandoned"]
    /\ UNCHANGED <<cache, request, response, result, replay, pieces, chunks, calls, writes, log, before>>

Next ==
    \/ \E r \in Reqs, m \in Messages, a \in Aliases : Chat(r, m, a)
    \/ \E r \in Reqs, msg \in CreateReturns : ChatReturn(r, msg)
    \/ \E r \in Reqs : ChatAPIError(r)
    \/ \E r \in Reqs, m \in Messages, a \in Aliases : ChatStream(r, m, a)
    \/ \E r \in Reqs : StreamReplay(r)
    \/ \E r \in Reqs : StreamOpen(r)
    \/ \E r \in Reqs : StreamOpenError(r)
    \/ \E r \in Reqs, text \in Pieces : StreamFetch(r, text)
    \/ \E r \in Reqs : StreamYield(r)
    \/ \E r \in Reqs : StreamPull(r)
    \/ \E r \in Reqs : StreamAPIError(r)
    \/ \E r \in Reqs, u \in Usages, c \in {0, 1} :
            StreamFinal(r, Message(IF c = 1 THEN <<Concat(pieces[r])>> ELSE <<>>, u))
    \/ \E r \in Reqs : StreamAbandon(r)

Spec == Init /\ [][Next]_vars

\* One step of the body of request r's StreamingResponse: the consumer
\* pulls, or generate() (or the replay iterator) runs on to its next
\* yield, its return or its raise.
StreamStep(r) ==
    \/ StreamReplay(r)
    \/ StreamOpen(r)
    \/ StreamOpenError(r)
    \/ \E text \in Pieces : StreamFetch(r, text)
    \/ StreamYield(r)
    \/ StreamPull(r)
    \/ StreamAPIError(r)
    \/ \E u \in Usages, c \in {0, 1} :
            StreamFinal(r, Message(IF c = 1 THEN <<Concat(pieces[r])>> ELSE <<>>, u))

\* The program with a consumer that keeps iterating each response body
\* while it has not gone away, and an upstream that, once asked, emits a
\* piece, completes or fails.
FairSpec == Spec /\ \A r \in Reqs : WF_vars(StreamStep(r))

\* ------------------------------------------------- claim vocabulary
IsChat(r) == request[r].endpoint = "/chat"
IsStream(r) == request[r].endpoint = "/chat/stream"
KnownAlias(r) == request[r].model \in DOMAIN MODELS

\* Two requests carry the same message and the same alias.
SamePair(q, r) ==
    /\ request[q].message = request[r].message
    /\ request[q].model = request[r].model

\* No third request for the message and alias of r1 has arrived.
Alone(r1, r2) ==
    \A q \in Reqs \ {r1, r2} : pc[q] = "idle" \/ ~SamePair(q, r1)

\* Request q has received a complete upstream message with a text block,
\* for this message and this model id.
CompletedFor(q, message, model_id) ==
    /\ pc[q] # "idle"
    /\ request[q].message = message
    /\ KnownAlias(q)
    /\ MODELS[request[q].model] = model_id
    /\ response[q].received
    /\ response[q].content # <<>>
    /\ IsStream(q) => response[q].content[1] = Concat(pieces[q])

\* The texts of the chunks that are not the trailer, in order.
ChunkTexts(cs) ==
    LET body == SelectSeq(cs, LAMBDA c : ~c.trailer)
    IN  [i \in 1..Len(body) |-> body[i].text]

HasTrailer(cs) == \E i \in 1..Len(cs) : cs[i].trailer

\* ---------------------------------------------------------------- C1
\* C1: when two /chat requests with the same message and alias run one
\* after the other (the second arrives after the first has answered, and
\* no other request for that message and alias exists) and the first
\* succeeds, the two make exactly one upstream call in total, and the
\* second answers the first one's text with cached = true, zero usage and
\* zero cost.
C1_SecondBufferedRequestIsCached ==
    \A r1 \in Reqs : \A r2 \in Reqs :
        ( /\ r1 \in before[r2]
          /\ IsChat(r1) /\ IsChat(r2)
          /\ SamePair(r1, r2)
          /\ result[r1].status = 200
          /\ Alone(r1, r2) )
        => /\ pc[r2] = "done"
           /\ result[r2].status = 200
           /\ result[r2].response = result[r1].response
           /\ result[r2].cached = TRUE
           /\ result[r2].usage = [input_tokens |-> 0, output_tokens |-> 0]
           /\ result[r2].estimated_cost_usd = 0
           /\ calls[r1] + calls[r2] = 1

\* Two /chat requests in a row, the first answered from upstream with a
\* two-piece text, the second from the cache.
C1_Witness ==
    \E r1 \in Reqs : \E r2 \in Reqs :
        /\ r1 \in before[r2]
        /\ IsChat(r1) /\ IsChat(r2)
        /\ SamePair(r1, r2)
        /\ result[r1].status = 200 /\ ~result[r1].cached
        /\ result[r1].response = "ab"
        /\ result[r2].cached

\* ---------------------------------------------------------------- C2
\* Every cache entry is the full text of a completed upstream message that
\* some request received for exactly that message and model id.
C2_CacheHoldsFullTexts ==
    \A k \in DOMAIN cache :
        \E q \in Reqs : CompletedFor(q, k[1], k[2]) /\ cache[k] = response[q].content[1]

\* A streaming hit that has not sent its chunk yet holds exactly one text,
\* the full text of a completed upstream message for its pair.
C2_ReplayHoldsFullText ==
    \A r \in Reqs :
        pc[r] = "replay" =>
            \E q \in Reqs \ {r} :
                /\ CompletedFor(q, request[r].message, MODELS[request[r].model])
                /\ replay[r] = <<response[q].content[1]>>

\* The step on which a request is served from the cache: the text it
\* takes is the full text of an upstream message completed before the step.
C2_HitStep ==
    \A r \in Reqs :
        ( /\ pc[r] = "idle" /\ pc'[r] # "idle"
          /\ result'[r].cached \/ result'[r].xcache = "HIT" )
        => \E q \in Reqs \ {r} :
            /\ CompletedFor(q, request'[r].message, MODELS[request'[r].model])
            /\ IF request'[r].endpoint = "/chat"
               THEN result'[r].response = response[q].content[1]
               ELSE replay'[r] = <<response[q].content[1]>>

\* The step on which a streaming hit sends its chunk: the text it took.
C2_ReplayStep ==
    \A r \in Reqs :
        (pc[r] = "replay" /\ pc'[r] # "replay")
        => chunks'[r] = <<[trailer |-> FALSE, text |-> replay[r][1],
                           usage |-> ZeroUsage, cost |-> 0]>>

\* C2: every cache hit, buffered or streaming, under any interleaving,
\* returns the full response text of an upstream call for the identical
\* (message, model id) pair that completed before the hit; the cache never
\* holds a partial text or a text produced for another pair.
C2_HitsReturnCompletedTexts ==
    /\ [](C2_CacheHoldsFullTexts /\ C2_ReplayHoldsFullText)
    /\ [][C2_HitStep /\ C2_ReplayStep]_vars

\* A streaming hit has replayed the two-piece text that another streaming
\* request assembled.
C2_Witness ==
    \E r \in Reqs : \E q \in Reqs \ {r} :
        /\ IsStream(r) /\ IsStream(q)
        /\ result[r].xcache = "HIT" /\ pc[r] = "done"
        /\ Len(pieces[q]) = 2
        /\ ChunkTexts(chunks[r]) = <<Concat(pieces[q])>>

\* ---------------------------------------------------------------- C3
\* A request with an unknown alias has ended with a 400, before any
\* streaming, with no upstream call and no cache write.
C3_Rejected ==
    \A r \in Reqs :
        (pc[r] # "idle" /\ ~KnownAlias(r))
        => /\ pc[r] = "done"
           /\ result[r].status = 400
           /\ result[r].raised = "HTTPException"
           /\ result[r].xcache = None
           /\ chunks[r] = <<>>
           /\ calls[r] = 0
           /\ writes[r] = 0

\* The step on which it arrives leaves the cache as it was.
C3_RejectStep ==
    \A r \in Reqs :
        (pc[r] = "idle" /\ pc'[r] # "idle" /\ request'[r].model \notin DOMAIN MODELS)
        => cache' = cache

\* C3: an alias that is not in MODELS ends in a 400 on /chat and on
\* /chat/stream, with zero upstream calls and the cache unchanged; on
\* /chat/stream the error comes before any chunk.
C3_UnknownAliasIs400 == []C3_Rejected /\ [][C3_RejectStep]_vars

\* A /chat/stream request with an unknown alias has been rejected while
\* the cache holds an entry.
C3_Witness ==
    /\ \E r \in Reqs : IsStream(r) /\ ~KnownAlias(r) /\ result[r].status = 400
    /\ DOMAIN cache # {}

\* ---------------------------------------------------------------- C4
\* The step on which client.messages.create fails (the call ends and no
\* message has come back): the request answers 503 and the cache is as it
\* was.
C4_FailStep ==
    \A r \in Reqs :
        (pc[r] = "calling" /\ pc'[r] # "calling" /\ ~response'[r].received)
        => /\ pc'[r] = "done"
           /\ result'[r].status = 503
           /\ cache' = cache

\* A /chat request that answered 503 wrote nothing, and a later request
\* for the same message and alias (no other one exists) misses the cache
\* and goes upstream.
C4_FailureNotCached ==
    /\ \A r \in Reqs :
        (IsChat(r) /\ result[r].status = 503) => writes[r] = 0 /\ calls[r] = 1
    /\ \A r1 \in Reqs : \A r2 \in Reqs :
        ( /\ r1 \in before[r2]
          /\ IsChat(r1) /\ result[r1].status = 503
          /\ SamePair(r1, r2)
          /\ Alone(r1, r2) )
        => /\ IsChat(r2) => calls[r2] = 1 /\ ~result[r2].cached
           /\ IsStream(r2) => result[r2].xcache = "MISS"

\* C4: when the upstream call of a /chat request fails, the request ends
\* with a 503, the cache is exactly as before, and a later request with
\* the same message and alias is a miss that calls upstream again.
C4_BufferedFailureIs503 == []C4_FailureNotCached /\ [][C4_FailStep]_vars

\* A /chat request failed with 503 and the same request, sent again, was
\* answered from upstream.
C4_Witness ==
    \E r1 \in Reqs : \E r2 \in Reqs :
        /\ r1 \in before[r2]
        /\ IsChat(r1) /\ result[r1].status = 503
        /\ IsChat(r2) /\ SamePair(r1, r2)
        /\ result[r2].status = 200 /\ calls[r2] = 1

\* ---------------------------------------------------------------- C5
\* C5: when a /chat/stream request has completed successfully and the
\* same message and alias are streamed again (no other request for them
\* exists), the second response is marked X-Cache: HIT, its stream is
\* exactly one chunk, the cached text, with no trailer, and the upstream
\* stream was opened once over the two requests.
C5_SecondStreamIsReplay ==
    \A r1 \in Reqs : \A r2 \in Reqs :
        ( /\ r1 \in before[r2]
          /\ IsStream(r1) /\ IsStream(r2)
          /\ SamePair(r1, r2)
          /\ KnownAlias(r1) /\ pc[r1] = "done"
          /\ Alone(r1, r2) )
        => /\ result[r2].status = 200
           /\ result[r2].xcache = "HIT"
           /\ pc[r2] \in {"replay", "done"}
           /\ pc[r2] = "replay" => chunks[r2] = <<>>
           /\ pc[r2] = "done" =>
                chunks[r2] = <<[trailer |-> FALSE, text |-> Concat(pieces[r1]),
                                usage |-> ZeroUsage, cost |-> 0]>>
           /\ calls[r1] + calls[r2] = 1

\* A two-piece stream completed, and the same request streamed again got
\* its one chunk.
C5_Witness ==
    \E r1 \in Reqs : \E r2 \in Reqs :
        /\ r1 \in before[r2]
        /\ IsStream(r1) /\ IsStream(r2)
        /\ SamePair(r1, r2)
        /\ Len(pieces[r1]) = 2
        /\ pc[r1] = "done" /\ pc[r2] = "done"
        /\ Len(chunks[r2]) = 1

\* ---------------------------------------------------------------- C6
\* The step on which a streaming request fails leaves the cache and the
\* chunks already sent as they were.
C6_FailStep ==
    \A r \in Reqs :
        (pc[r] # "failed" /\ pc'[r] = "failed")
        => cache' = cache /\ chunks'[r] = chunks[r]

\* A failed stream stays failed and sends nothing more.
C6_Aborted ==
    \A r \in Reqs :
        pc[r] = "failed" =>
            pc'[r] = "failed" /\ chunks'[r] = chunks[r] /\ writes'[r] = writes[r]

\* A failed stream has sent only the pieces it pulled, no trailer, and
\* has written nothing to the cache.
C6_NoTrailerNoWrite ==
    \A r \in Reqs :
        pc[r] = "failed" =>
            /\ IsStream(r)
            /\ ~HasTrailer(chunks[r])
            /\ ChunkTexts(chunks[r]) = pieces[r]
            /\ writes[r] = 0

\* C6: when the upstream call of a streaming request fails at any point,
\* before the first chunk or after any number of chunks, the stream is
\* aborted without a trailer and the request writes nothing to the cache.
C6_StreamFailureWritesNothing ==
    []C6_NoTrailerNoWrite /\ [][C6_FailStep /\ C6_Aborted]_vars

\* One stream failed before its first chunk and another after two chunks.
C6_Witness ==
    \E r1 \in Reqs : \E r2 \in Reqs :
        /\ pc[r1] = "failed" /\ result[r1].raised = "HTTPException"
        /\ chunks[r1] = <<>>
        /\ pc[r2] = "failed" /\ result[r2].raised = "HTTPException"
        /\ Len(chunks[r2]) = 2

\* ---------------------------------------------------------------- C7
\* C7: when the upstream streaming call fails before any chunk has been
\* produced, the request ends with a 503 response; only a failure after
\* chunks have started flowing ends as a terminated stream.
C7_FailureBeforeFirstChunkIs503 ==
    \A r \in Reqs :
        ( /\ IsStream(r)
          /\ pc[r] = "failed"
          /\ result[r].raised = "HTTPException"
          /\ chunks[r] = <<>> )
        => result[r].status = 503

\* ---------------------------------------------------------------- C8
\* A streaming miss that has completed: its chunks are the pieces the
\* provider emitted, in that order, then the trailer, and the pieces put
\* together are the text of the final message.
C8_ChunksArePieces ==
    \A r \in Reqs :
        (IsStream(r) /\ pc[r] \in {"trailer", "done"} /\ result[r].xcache = "MISS")
        => LET n == Len(chunks[r])
           IN  /\ n = Len(pieces[r]) + 1
               /\ chunks[r][n].trailer
               /\ \A i \in 1..(n - 1) :
                    ~chunks[r][i].trailer /\ chunks[r][i].text = pieces[r][i]
               /\ Concat(ChunkTexts(chunks[r])) = response[r].content[1]

\* A /chat request that follows a completed streaming miss for the same
\* message and alias (no other request for them exists) returns the
\* stream's chunks before the trailer, put together.
C8_BufferedReturnsSameText ==
    \A r1 \in Reqs : \A r2 \in Reqs :
        ( /\ r1 \in before[r2]
          /\ IsStream(r1) /\ KnownAlias(r1) /\ pc[r1] = "done"
          /\ IsChat(r2)
          /\ SamePair(r1, r2)
          /\ Alone(r1, r2) )
        => result[r2].response = Concat(ChunkTexts(chunks[r1]))

\* The step on which a streaming miss finalizes: what it writes to the
\* cache under its key is its chunks so far, put together.
C8_WriteStep ==
    \A r \in Reqs :
        (pc[r] = "fetching" /\ pc'[r] = "trailer")
        => LET key == <<request[r].message, MODELS[request[r].model]>>
           IN  /\ key \in DOMAIN cache'
               /\ cache'[key] = Concat(ChunkTexts(chunks[r]))

\* C8: on a streaming miss that completes, the chunks before the trailer
\* are the upstream pieces in the order emitted, and put together they are
\* the text the request writes to the cache, which is what a /chat request
\* with the same message and alias returns.
C8_StreamEqualsBuffered ==
    [](C8_ChunksArePieces /\ C8_BufferedReturnsSameText) /\ [][C8_WriteStep]_vars

\* A stream of "a" then "b" completed and a /chat request for the same
\* message and alias then returned "ab".
C8_Witness ==
    \E r1 \in Reqs : \E r2 \in Reqs :
        /\ r1 \in before[r2]
        /\ IsStream(r1) /\ pc[r1] = "done" /\ pieces[r1] = <<"a", "b">>
        /\ IsChat(r2) /\ SamePair(r1, r2)
        /\ result[r2].response = "ab"

\* ---------------------------------------------------------------- C9
\* Every key in the cache is the exact message and the resolved model id
\* of a request that wrote it.
C9_KeysAreExactPairs ==
    \A k \in DOMAIN cache :
        \E q \in Reqs :
            /\ writes[q] > 0
            /\ k = <<request[q].message, MODELS[request[q].model]>>

\* A request served from the cache has the exact message and the model id
\* of some other request that wrote the cache.
C9_HitHasSamePair ==
    \A r \in Reqs :
        (result[r].cached \/ result[r].xcache = "HIT")
        => \E q \in Reqs \ {r} :
            /\ writes[q] > 0
            /\ request[q].message = request[r].message
            /\ MODELS[request[q].model] = MODELS[request[r].model]

\* Two /chat requests that differ in the message or in the model id, with
\* no third request around, each call upstream.
C9_DifferentPairsBothCall ==
    \A r1 \in Reqs : \A r2 \in Reqs :
        ( /\ r1 # r2
          /\ IsChat(r1) /\ IsChat(r2)
          /\ KnownAlias(r1) /\ KnownAlias(r2)
          /\ \/ request[r1].message # request[r2].message
             \/ MODELS[request[r1].model] # MODELS[request[r2].model]
          /\ \A q \in Reqs \ {r1, r2} : pc[q] = "idle" )
        => calls[r1] = 1 /\ calls[r2] = 1

\* C9: cache entries are keyed by the exact pair (message, resolved model
\* id): an entry never gives a hit to a request whose message differs in
\* any character or whose alias resolves to another model id, so one
\* message under two aliases makes two upstream calls.
C9_ExactKeys ==
    C9_KeysAreExactPairs /\ C9_HitHasSamePair /\ C9_DifferentPairsBothCall

\* "hello" was answered for haiku, then sent for sonnet, and each request
\* called upstream; the cache holds both entries.
C9_Witness ==
    \E r1 \in Reqs : \E r2 \in Reqs :
        /\ r1 \in before[r2]
        /\ IsChat(r1) /\ IsChat(r2)
        /\ request[r1].message = request[r2].message
        /\ request[r1].model = "haiku" /\ request[r2].model = "sonnet"
        /\ calls[r1] = 1 /\ calls[r2] = 1
        /\ Cardinality(DOMAIN cache) = 2

\* --------------------------------------------------------------- C10
\* C10: the cost a /chat miss returns is input_tokens / 1e6 * input rate
\* + output_tokens / 1e6 * output rate for the resolved model, rounded to
\* 6 decimals (the nearest micro-USD); a million tokens each way on haiku
\* (0.80 and 4.00) cost exactly 4.80.
C10_CostOfBufferedMiss ==
    \A r \in Reqs :
        (IsChat(r) /\ result[r].status = 200 /\ ~result[r].cached)
        => LET u == response[r].usage
               rate == IF request[r].model = "haiku"
                       THEN <<80, 400>> ELSE <<300, 1500>>
               exact == u.input_tokens * rate[1] + u.output_tokens * rate[2]
               cost == result[r].estimated_cost_usd
           IN  /\ result[r].usage = u
               /\ 100 * cost - 50 <= exact
               /\ exact <= 100 * cost + 50
               /\ ( /\ request[r].model = "haiku"
                    /\ u = [input_tokens |-> 1000000, output_tokens |-> 1000000] )
                  => cost = 4800000

\* A /chat miss on haiku reported a million tokens each way.
C10_Witness ==
    \E r \in Reqs :
        /\ IsChat(r) /\ result[r].status = 200 /\ ~result[r].cached
        /\ request[r].model = "haiku"
        /\ result[r].usage = [input_tokens |-> 1000000, output_tokens |-> 1000000]
        /\ result[r].estimated_cost_usd = 4800000

\* --------------------------------------------------------------- C11
\* C11: every request, /chat or /chat/stream, issues at most one upstream
\* call over its whole life, whatever its outcome: a request served from
\* the cache and a request with an unknown alias issue none, and a failed
\* call is not retried (the request has ended with its one call).
C11_AtMostOneUpstreamCall ==
    \A r \in Reqs :
        /\ calls[r] \in {0, 1}
        /\ (result[r].cached \/ result[r].xcache = "HIT") => calls[r] = 0
        /\ (pc[r] # "idle" /\ ~KnownAlias(r)) => calls[r] = 0
        /\ (IsChat(r) /\ result[r].status \in {500, 503})
                => calls[r] = 1 /\ pc[r] = "done"
        /\ pc[r] = "failed" => calls[r] = 1
        /\ pc[r] \in {"calling", "fetching", "fetched", "suspended", "trailer"}
                => calls[r] = 1

\* A /chat request ended 503 and a stream failed, each after its one call.
C11_Witness ==
    \E r1 \in Reqs : \E r2 \in Reqs :
        /\ IsChat(r1) /\ result[r1].status = 503 /\ calls[r1] = 1
        /\ IsStream(r2) /\ pc[r2] = "failed" /\ calls[r2] = 1

\* --------------------------------------------------------------- C12
\* The step on which a request arrives while another request for the same
\* message and alias is under way and has not written the cache (and no
\* third request for them exists): it misses too, there is no waiting for
\* the call in flight.
C12_NoSingleFlight ==
    \A r1 \in Reqs : \A r2 \in Reqs :
        ( /\ r1 # r2
          /\ pc[r2] = "idle" /\ pc'[r2] # "idle"
          /\ pc[r1] \notin {"idle"} /\ KnownAlias(r1) /\ writes[r1] = 0
          /\ request'[r2].message = request[r1].message
          /\ request'[r2].model = request[r1].model
          /\ Alone(r1, r2) )
        => /\ pc'[r2] \in {"calling", "created"}
           /\ request'[r2].endpoint = "/chat" => calls'[r2] = 1
           /\ request'[r2].endpoint = "/chat/stream" => result'[r2].xcache = "MISS"

\* The step on which a request writes the cache: afterwards its key holds
\* the text this request received, whatever it held, and every other
\* entry is as it was.
C12_LastWriterWins ==
    \A r \in Reqs :
        writes'[r] # writes[r]
        => LET key == <<request[r].message, MODELS[request[r].model]>>
           IN  /\ DOMAIN cache' = DOMAIN cache \cup {key}
               /\ cache'[key] = response'[r].content[1]
               /\ \A k \in DOMAIN cache : k # key => cache'[k] = cache[k]

\* A miss that is past its cache check on /chat has called upstream.
C12_MissCalls ==
    \A r \in Reqs :
        (IsChat(r) /\ KnownAlias(r) /\ ~result[r].cached) => calls[r] = 1

\* C12: two identical requests that both check the cache before either has
\* written it both call upstream, and the cache then holds one entry for
\* the key, the text of the request that wrote last.
C12_RaceLastWriterWins ==
    []C12_MissCalls /\ [][C12_NoSingleFlight /\ C12_LastWriterWins]_vars

\* Two identical /chat requests ran together, received different texts,
\* and the cache holds the text of the one that arrived first (it wrote
\* last).
C12_Witness ==
    \E r1 \in Reqs : \E r2 \in Reqs :
        /\ r1 < r2
        /\ IsChat(r1) /\ IsChat(r2) /\ SamePair(r1, r2)
        /\ r1 \notin before[r2]
        /\ writes[r1] = 1 /\ writes[r2] = 1
        /\ result[r1].response = "ab" /\ result[r2].response = "ba"
        /\ cache[<<request[r1].message, MODELS[request[r1].model]>>] = "ab"

\* --------------------------------------------------------------- C13
\* The request's upstream call has failed: it raised, or it returned a
\* completed message that has no content block.
C13_UpstreamFailed(r) ==
    \/ IsChat(r) /\ pc[r] = "done" /\ calls[r] = 1
                 /\ (~response[r].received \/ response[r].content = <<>>)
    \/ IsStream(r) /\ pc[r] = "failed"

\* C13: every kind of upstream failure, a completed message without a
\* content block included, ends the request in the one UpstreamUnavailable
\* (503) outcome with one error line logged and no cache write, on /chat
\* and on /chat/stream.
C13_EveryFailureIsUpstreamUnavailable ==
    \A r \in Reqs :
        C13_UpstreamFailed(r)
        => /\ IsChat(r) => result[r].status = 503
           /\ IsStream(r) => result[r].raised = "HTTPException"
           /\ log[r] = <<"upstream_error">>
           /\ writes[r] = 0

\* --------------------------------------------------------------- C14
\* The number of trailer chunks in a sequence of chunks.
RECURSIVE C14_Trailers(_)
C14_Trailers(cs) ==
    IF cs = <<>> THEN 0
    ELSE (IF cs[1].trailer THEN 1 ELSE 0) + C14_Trailers(Tail(cs))

\* C14: a streaming miss that completes produces exactly one trailer
\* chunk, as its last chunk, after one chunk for every upstream piece, and
\* the cache already holds the text under (message, resolved id) when the
\* trailer is produced; a replayed stream and a failed stream hold no
\* trailer.
C14_TrailerIsLastAfterCacheWrite ==
    \A r \in Reqs :
        /\ C14_Trailers(chunks[r]) \in {0, 1}
        /\ (IsStream(r) /\ result[r].xcache = "MISS" /\ pc[r] \in {"trailer", "done"})
            => /\ C14_Trailers(chunks[r]) = 1
               /\ Len(chunks[r]) = Len(pieces[r]) + 1
               /\ chunks[r][Len(chunks[r])].trailer
               /\ \A i \in 1..Len(pieces[r]) :
                      ~chunks[r][i].trailer /\ chunks[r][i].text = pieces[r][i]
        /\ C14_Trailers(chunks[r]) = 1
            => /\ writes[r] = 1
               /\ KeyOf(request[r]) \in DOMAIN cache
               /\ response[r].received
        /\ result[r].xcache = "HIT" => C14_Trailers(chunks[r]) = 0
        /\ pc[r] = "failed" => C14_Trailers(chunks[r]) = 0

\* One stream completed a miss of two pieces and its consumer took the
\* trailer; another replayed the entry and ended.
C14_Witness ==
    \E r1 \in Reqs : \E r2 \in Reqs :
        /\ IsStream(r1) /\ result[r1].xcache = "MISS" /\ pc[r1] = "done"
        /\ Len(pieces[r1]) = 2 /\ Len(chunks[r1]) = 3
        /\ IsStream(r2) /\ result[r2].xcache = "HIT" /\ pc[r2] = "done"

\* --------------------------------------------------------------- C15
\* The step on which /chat/stream handles a request for a known alias:
\* the response is marked HIT if the key is in the cache at that moment
\* and MISS if it is not.
C15_MarkStep ==
    \A r \in Reqs :
        ( /\ pc[r] = "idle" /\ pc'[r] # "idle"
          /\ request'[r].endpoint = "/chat/stream"
          /\ request'[r].model \in DOMAIN MODELS )
        => LET key == <<request'[r].message, MODELS[request'[r].model]>>
           IN  /\ key \in DOMAIN cache => result'[r].xcache = "HIT"
               /\ key \notin DOMAIN cache => result'[r].xcache = "MISS"

\* The mark of a response never changes once it is set, whether the
\* stream later succeeds, fails or is abandoned.
C15_MarkIsFixed ==
    \A r \in Reqs :
        result[r].xcache # None => result'[r].xcache = result[r].xcache

\* A response marked HIT made no upstream call; a stream past its miss
\* branch is marked MISS.
C15_HitMakesNoCall ==
    \A r \in Reqs :
        /\ result[r].xcache = "HIT" => calls[r] = 0 /\ pieces[r] = <<>>
        /\ (IsStream(r) /\ calls[r] = 1) => result[r].xcache = "MISS"
        /\ pc[r] = "failed" => result[r].xcache = "MISS"

\* C15: a /chat/stream response for a known alias is marked X-Cache: HIT
\* exactly when its key is in the cache at the cache check and MISS
\* otherwise; the MISS mark is fixed at the start of the miss branch
\* whatever happens to the stream later; a HIT makes no upstream call.
C15_XCacheMarksTheCacheCheck ==
    []C15_HitMakesNoCall /\ [][C15_MarkStep /\ C15_MarkIsFixed]_vars

\* A stream marked MISS has written the cache and is still marked MISS,
\* and a stream that arrived for the same pair after the write is marked
\* HIT and has made no upstream call.
C15_Witness ==
    \E r1 \in Reqs : \E r2 \in Reqs :
        /\ IsStream(r1) /\ result[r1].xcache = "MISS" /\ pc[r1] = "trailer"
        /\ IsStream(r2) /\ result[r2].xcache = "HIT" /\ pc[r2] = "replay"
        /\ SamePair(r1, r2) /\ calls[r2] = 0

\* --------------------------------------------------------------- C16
\* After a streaming miss has completed, a later /chat request for the
\* same message and alias (no third request for them) is a hit that
\* returns the streamed text without an upstream call.
C16_StreamThenChat ==
    \A r1 \in Reqs : \A r2 \in Reqs :
        ( /\ r1 \in before[r2]
          /\ IsStream(r1) /\ KnownAlias(r1) /\ result[r1].xcache = "MISS"
          /\ pc[r1] \in {"done", "abandoned"} /\ HasTrailer(chunks[r1])
          /\ IsChat(r2) /\ SamePair(r1, r2) /\ Alone(r1, r2) )
        => /\ pc[r2] = "done"
           /\ result[r2].status = 200 /\ result[r2].cached
           /\ result[r2].response = Concat(pieces[r1])
           /\ result[r2].response = response[r1].content[1]
           /\ calls[r2] = 0

\* After a /chat miss has succeeded, a later /chat/stream request for the
\* same message and alias is marked HIT and replays that text without an
\* upstream call.
C16_ChatThenStream ==
    \A r1 \in Reqs : \A r2 \in Reqs :
        ( /\ r1 \in before[r2]
          /\ IsChat(r1) /\ result[r1].status = 200 /\ ~result[r1].cached
          /\ IsStream(r2) /\ SamePair(r1, r2) /\ Alone(r1, r2) )
        => /\ result[r2].xcache = "HIT"
           /\ pc[r2] \in {"replay", "done"}
           /\ pc[r2] = "replay" => replay[r2] = <<result[r1].response>>
           /\ pc[r2] = "done"
                => chunks[r2] = <<[trailer |-> FALSE, text |-> result[r1].response,
                                   usage |-> ZeroUsage, cost |-> 0]>>
           /\ calls[r2] = 0

\* C16: the two modes share one cache: what a completed streaming miss
\* wrote is a hit on /chat, and what a successful /chat miss wrote is a
\* HIT replay on /chat/stream, each without an upstream call.
C16_ModesShareOneCache == C16_StreamThenChat /\ C16_ChatThenStream

\* A /chat request was served the text a stream had produced before it.
C16_Witness ==
    \E r1 \in Reqs : \E r2 \in Reqs :
        /\ r1 \in before[r2]
        /\ IsStream(r1) /\ pc[r1] = "done" /\ Concat(pieces[r1]) = "ab"
        /\ IsChat(r2) /\ SamePair(r1, r2)
        /\ result[r2].cached /\ result[r2].response = "ab"

\* A stream replayed the text a /chat request had received before it.
C16_WitnessReplay ==
    \E r1 \in Reqs : \E r2 \in Reqs :
        /\ r1 \in before[r2]
        /\ IsChat(r1) /\ result[r1].status = 200 /\ ~result[r1].cached
        /\ IsStream(r2) /\ SamePair(r1, r2) /\ pc[r2] = "done"

\* --------------------------------------------------------------- C17
\* No step removes a key from the cache.
C17_KeysOnlyGrow == DOMAIN cache \subseteq DOMAIN cache'

\* The step on which a request arrives for a pair that is cached: it is
\* a hit (cached on /chat, marked HIT on /chat/stream).
C17_CachedPairHits ==
    \A r \in Reqs :
        ( /\ pc[r] = "idle" /\ pc'[r] # "idle"
          /\ request'[r].model \in DOMAIN MODELS
          /\ <<request'[r].message, MODELS[request'[r].model]>> \in DOMAIN cache )
        => /\ calls'[r] = 0
           /\ request'[r].endpoint = "/chat" => result'[r].cached
           /\ request'[r].endpoint = "/chat/stream" => result'[r].xcache = "HIT"

\* The step on which a request is rejected or fails: the cache is as it
\* was.
C17_FailureKeepsEntries ==
    \A r \in Reqs :
        ( /\ ~Ended(r)
          /\ \/ pc'[r] = "failed"
             \/ pc'[r] = "done" /\ result'[r].status \in {400, 500, 503} )
        => cache' = cache

\* Every request that has written the cache still has its key there, and
\* every request that arrived after the write, for the same pair, is a
\* hit.
C17_WrittenStaysCached ==
    \A r1 \in Reqs :
        writes[r1] > 0
        => /\ KeyOf(request[r1]) \in DOMAIN cache
           /\ \A r2 \in Reqs :
                (r1 \in before[r2] /\ SamePair(r1, r2))
                => (result[r2].cached \/ result[r2].xcache = "HIT")

\* C17: no operation removes a cache entry and the set of cached keys
\* only grows, so once a pair is cached every later request for it is a
\* hit; a failed or rejected request leaves every entry unchanged.
C17_CacheOnlyGrows ==
    /\ []C17_WrittenStaysCached
    /\ [][C17_KeysOnlyGrow /\ C17_CachedPairHits /\ C17_FailureKeepsEntries]_vars

\* One request wrote an entry and a later /chat request, for another
\* pair, failed with 503; the entry is still there.
C17_Witness ==
    \E r1 \in Reqs : \E r2 \in Reqs :
        /\ r1 \in before[r2]
        /\ writes[r1] = 1
        /\ IsChat(r2) /\ result[r2].status = 503 /\ ~SamePair(r1, r2)
        /\ KeyOf(request[r1]) \in DOMAIN cache
        /\ cache[KeyOf(request[r1])] = response[r1].content[1]

\* --------------------------------------------------------------- C18
\* The step on which the consumer of a stream goes away: the cache is as
\* it was.
C18_AbandonStep ==
    \A r \in Reqs :
        (pc[r] # "abandoned" /\ pc'[r] = "abandoned") => cache' = cache

\* The step on which a stream writes the cache: every upstream piece has
\* been pulled and handed on, and the final message is obtained on it.
C18_WriteStep ==
    \A r \in Reqs :
        (IsStream(r) /\ writes'[r] # writes[r])
        => /\ pc[r] = "fetching"
           /\ ChunkTexts(chunks[r]) = pieces[r]
           /\ ~response[r].received /\ response'[r].received
           /\ response'[r].content = <<Concat(pieces[r])>>

\* A stream whose consumer stopped before the trailer has written
\* nothing and has no final message.
C18_AbandonedEarly ==
    \A r \in Reqs :
        (pc[r] = "abandoned" /\ ~HasTrailer(chunks[r]))
        => /\ writes[r] = 0
           /\ ~response[r].received
           /\ log[r] = <<>>

\* C18: a streaming miss whose consumer stops pulling before the upstream
\* stream has been read to completion writes nothing to the cache; the
\* write happens only after the last upstream piece has been pulled and
\* the final message obtained.
C18_AbandonedStreamWritesNothing ==
    []C18_AbandonedEarly /\ [][C18_AbandonStep /\ C18_WriteStep]_vars

\* The only request so far is a stream abandoned after its first chunk,
\* and the cache is empty.
C18_Witness ==
    \E r \in Reqs :
        /\ IsStream(r) /\ pc[r] = "abandoned"
        /\ Len(chunks[r]) = 1 /\ ~HasTrailer(chunks[r])
        /\ \A q \in Reqs \ {r} : pc[q] = "idle"
        /\ cache = <<>>

\* --------------------------------------------------------------- C19
\* DONE: the stream ended normally, a replay after its one chunk, a miss
\* after the cache write and the trailer.
C19_Done(r) ==
    /\ pc[r] = "done"
    /\ \/ result[r].xcache = "HIT" /\ Len(chunks[r]) = 1
       \/ result[r].xcache = "MISS" /\ writes[r] = 1 /\ HasTrailer(chunks[r])

\* FAILED(UpstreamUnavailable): generate() raised the 503 without having
\* written the cache or produced the trailer.
C19_Failed(r) ==
    /\ pc[r] = "failed"
    /\ result[r].raised = "HTTPException"
    /\ writes[r] = 0 /\ ~HasTrailer(chunks[r])

\* A stream for a known alias is on the replay branch or on the upstream
\* branch, never on both, and an ended stream is DONE, FAILED or left by
\* its consumer.
C19_OneBranchOneOutcome ==
    \A r \in Reqs :
        (IsStream(r) /\ KnownAlias(r))
        => /\ result[r].xcache \in {"HIT", "MISS"}
           /\ result[r].xcache = "HIT"
                => /\ pc[r] \in {"replay", "done"}
                   /\ calls[r] = 0 /\ pieces[r] = <<>> /\ writes[r] = 0
           /\ result[r].xcache = "MISS"
                => /\ pc[r] \in {"created", "fetching", "fetched", "suspended",
                                 "trailer", "done", "failed", "abandoned"}
                   /\ replay[r] = <<>>
           /\ pc[r] = "done" => C19_Done(r)
           /\ pc[r] = "failed" => C19_Failed(r)

\* C19: every streaming request ends in exactly one terminal outcome: for
\* a known alias it takes the replay branch or the upstream branch, never
\* both, and, while its consumer keeps pulling and the upstream completes
\* or fails, it reaches DONE (after the cache write and the trailer) or
\* FAILED(UpstreamUnavailable) (without them).
C19_EveryStreamEnds ==
    /\ []C19_OneBranchOneOutcome
    /\ \A r \in Reqs :
          (IsStream(r) /\ KnownAlias(r))
              ~> (C19_Done(r) \/ C19_Failed(r) \/ pc[r] = "abandoned")

\* The same, with the generator dying of the uncaught IndexError counted
\* as a third way to end.
C19_Crashed(r) ==
    /\ pc[r] = "failed"
    /\ result[r].raised = "IndexError"
    /\ writes[r] = 0 /\ ~HasTrailer(chunks[r])

C19_EveryStreamEndsOrCrashes ==
    \A r \in Reqs :
        (IsStream(r) /\ KnownAlias(r))
            ~> (C19_Done(r) \/ C19_Failed(r) \/ C19_Crashed(r) \/ pc[r] = "abandoned")

\* --------------------------------------------------------------- C20
\* C20: streaming is pull-based: the pieces fetched from upstream exceed
\* the text chunks handed to the consumer by at most one, the one piece
\* about to be yielded, and while the consumer holds a chunk it has not
\* pulled past, nothing more has been fetched.
C20_FetchAheadAtMostOne ==
    \A r \in Reqs :
        LET fetched == Len(pieces[r])
            handed == Len(ChunkTexts(chunks[r]))
        IN  IsStream(r) /\ result[r].xcache = "MISS"
            => /\ fetched - handed \in {0, 1}
               /\ fetched - handed = 1 <=> pc[r] = "fetched"
               /\ pc[r] \in {"suspended", "abandoned"} => fetched = handed
               /\ \A i \in 1..handed : ChunkTexts(chunks[r])[i] = pieces[r][i]

\* The second piece has been fetched and the consumer holds only the
\* first chunk.
C20_Witness ==
    \E r \in Reqs :
        /\ IsStream(r) /\ pc[r] = "fetched"
        /\ Len(pieces[r]) = 2 /\ Len(chunks[r]) = 1

====
